---- MODULE Spec2Model ----
(***************************************************************************)
(* Session / room coordination core of the "Listen Together" relay         *)
(* (src/unnamed/part_000; src/index.ts and src/dist/index.js are earlier   *)
(* versions of the same handlers).                                         *)
(*                                                                         *)
(* State: the in-memory `sessions` table, and per connection the           *)
(* insertion-ordered set `socket.rooms` kept by socket.io.  One action per *)
(* inbound event; each action is the whole handler, run to completion      *)
(* (node dispatches one event at a time).  `out` is the list of events the *)
(* last handler delivered, in emission order, and `last` names the request *)
(* that was handled.                                                       *)
(*                                                                         *)
(* socket.io behaviour the handlers rely on:                               *)
(*  - socket.rooms holds the socket's own id first, then joined rooms in   *)
(*    join order; join of a room already joined is a no-op;                *)
(*  - io.to(r).emit reaches every connected socket with r in its rooms;    *)
(*    socket.to(r).emit the same except the sender;                        *)
(*  - on a lost connection the socket leaves all of its rooms BEFORE the   *)
(*    "disconnect" event is emitted ("disconnecting" is the event emitted  *)
(*    while the rooms are still there);                                    *)
(*  - a room is not emptied when a session is deleted from `sessions`.     *)
(* `sessions` is a plain object literal, so sessions[k] is also truthy for *)
(* the property names it inherits from Object.prototype.                   *)
(*                                                                         *)
(* Not modelled: display names, payload contents, the HTTP routes.         *)
(***************************************************************************)
EXTENDS Naturals, Sequences, FiniteSets, TLC

\* ---------------------------------------------------------------- bounds
\* how many rooms besides its own a connection joins in the model
MaxRooms == 2

\* connection ids the transport hands out (each used by one connection)
Sockets == {"s1", "s2"}
\* the part of the 36^6 code space the model draws from
Codes == {"AB12CD", "ZZ99ZZ"}
\* property names every object literal inherits (Object.prototype)
ProtoKeys == {"constructor"}
\* an identifier that is no connection and no room
GhostId == "ghost"
\* the falsy code (missing field / empty string)
EmptyCode == ""
\* JavaScript undefined, as a host id or a lookup result
Undefined == "undefined"

\* what a client may put in a `code` field
CodeArgs == Codes \cup ProtoKeys \cup {EmptyCode}

VARIABLES status, rooms, sessions, xfer, last, out

vars == <<status, rooms, sessions, xfer, last, out>>

\* ---------------------------------------------------------------- helpers
SeqToSet(q) == {q[i] : i \in 1..Len(q)}

Without(q, r) == SelectSeq(q, LAMBDA x : x # r)

\* Set.add: append unless present
AddRoom(q, r) == IF r \in SeqToSet(q) THEN q ELSE Append(q, r)

\* `!code`
Falsy(code) == code = EmptyCode

\* truthiness of sessions[code]
SessionExists(code) == code \in DOMAIN sessions \/ code \in ProtoKeys

\* sessions[code].hostId
HostId(code) == IF code \in DOMAIN sessions THEN sessions[code] ELSE Undefined

\* Array.from(socket.rooms).find((r) => r !== socket.id && sessions[r])
RECURSIVE FindIn(_, _)
FindIn(q, s) ==
  IF q = <<>> THEN Undefined
  ELSE IF Head(q) # s /\ SessionExists(Head(q)) THEN Head(q)
  ELSE FindIn(Tail(q), s)

FindCode(s) == FindIn(rooms[s], s)

\* the sockets a room-addressed emit reaches, given the rooms table
MembersIn(rms, r) == {s \in Sockets : status[s] = "connected" /\ r \in SeqToSet(rms[s])}

Members(r) == MembersIn(rooms, r)

Ev(to, ev, arg) == [to |-> to, ev |-> ev, arg |-> arg]

\* a set of recipients as a sequence of deliveries of one event
RECURSIVE Fanout(_, _, _)
Fanout(S, ev, arg) ==
  IF S = {} THEN <<>>
  ELSE LET s == CHOOSE x \in S : TRUE
       IN <<Ev(s, ev, arg)>> \o Fanout(S \ {s}, ev, arg)

\* `last`: the request just handled.  code: the code the request named or, for
\* the handlers that look the session up, the lookup's result; arg: the payload
\* field the handler went on to read (Unread when it returned before that);
\* ack: what the join acknowledgment was called with
Unread == "-"

Req(op, caller, code, arg, ack) ==
  [op |-> op, caller |-> caller, code |-> code, arg |-> arg, ack |-> ack]

NoXfer == [code |-> EmptyCode, old |-> Undefined, new |-> Undefined]

\* `xfer` is a record kept for the claims about consecutive requests; a
\* specification that starts it at XferOff does not keep it
XferOff == [code |-> "off", old |-> Undefined, new |-> Undefined]

Track(x) == IF xfer = XferOff THEN XferOff ELSE x

Connected(s) == status[s] = "connected"

\* ---------------------------------------------------------------- Init
Init ==
  /\ status = [s \in Sockets |-> "fresh"]
  /\ rooms = [s \in Sockets |-> <<>>]
  /\ sessions = <<>>
  /\ xfer = NoXfer
  /\ last = Req("start", Undefined, EmptyCode, Unread, "none")
  /\ out = <<>>

\* io.on("connection"): the socket joins the room named by its own id
Connect(s) ==
  /\ status[s] = "fresh"
  /\ status' = [status EXCEPT ![s] = "connected"]
  /\ rooms' = [rooms EXCEPT ![s] = <<s>>]
  /\ last' = Req("connect", s, EmptyCode, Unread, "none")
  /\ out' = <<>>
  /\ UNCHANGED <<sessions, xfer>>

\* ---------------------------------------------------------------- generateCode
\* (mutant) generateCode without the redraw on collision
GenerateCodeNoRetry == Codes

\* the candidates generateCode may return: it redraws while sessions[code]
GenerateCode == {c \in Codes : ~SessionExists(c)}

\* socket.on("create-session")
CreateSession(s) ==
  /\ Connected(s)
  /\ Len(rooms[s]) <= MaxRooms
  /\ \E code \in GenerateCode :
       /\ rooms' = [rooms EXCEPT ![s] = AddRoom(@, code)]
       /\ sessions' = [c \in DOMAIN sessions \cup {code} |->
                         IF c = code THEN s ELSE sessions[c]]
       /\ out' = <<Ev(s, "session-created", code), Ev(s, "user-joined", s)>>
       /\ last' = Req("create-session", s, code, Unread, "none")
  /\ UNCHANGED <<status, xfer>>

\* (mutant) transfer-host that checks the session but not who asks
TransferAllowedAnyone(s, code) == code \in DOMAIN sessions

\* (mutant) transfer-host that lets any member of the room transfer
TransferAllowedMember(s, code) == code \in DOMAIN sessions /\ code \in SeqToSet(rooms[s])

\* the host check of transfer-host: socket.id !== sessions[code].hostId
TransferAllowed(s, code) == s = HostId(code)

\* (mutant) transfer-host that announces the transfer but keeps the old host
SessionsAfterTransferKept(code, newHostId) == sessions

\* sessions[code].hostId = newHostId
SessionsAfterTransfer(code, newHostId) == [sessions EXCEPT ![code] = newHostId]

\* socket.on("transfer-host")
TransferHost(s, code, newHostId) ==
  /\ Connected(s)
  /\ IF Falsy(code) \/ ~SessionExists(code)
       THEN /\ out' = <<Ev(s, "error", "Invalid session for host transfer")>>
            /\ last' = Req("transfer-host", s, code, Unread, "none")
            /\ UNCHANGED <<sessions, xfer>>
     ELSE IF ~TransferAllowed(s, code)
       THEN /\ out' = <<Ev(s, "error", "Only the current host can transfer host rights")>>
            /\ last' = Req("transfer-host", s, code, Unread, "none")
            /\ UNCHANGED <<sessions, xfer>>
     ELSE /\ sessions' = SessionsAfterTransfer(code, newHostId)
          /\ last' = Req("transfer-host", s, code, newHostId, "none")
          /\ out' = Fanout(Members(code), "host-transferred", newHostId)
          /\ xfer' = Track([code |-> code, old |-> s, new |-> newHostId])
  /\ UNCHANGED <<status, rooms>>

\* the guard of join-session: !code || !sessions[code]
JoinRejected(code) == Falsy(code) \/ ~SessionExists(code)

\* (mutant) request-state sent with io.to, which does not leave out the sender
RequestStateToAll(s, code, rms) == MembersIn(rms, HostId(code))

\* socket.to(sessions[code].hostId): the sockets request-state goes to
RequestStateTo(s, code, rms) == MembersIn(rms, HostId(code)) \ {s}

\* socket.on("join-session"); cb: the client passed an acknowledgment callback
JoinSession(s, code, cb) ==
  /\ Connected(s)
  /\ IF JoinRejected(code)
       THEN /\ last' = Req("join-session", s, code, Unread, IF cb THEN "false" ELSE "none")
            /\ out' = <<Ev(s, "error", "Invalid session code")>>
            /\ UNCHANGED rooms
     ELSE /\ code \in SeqToSet(rooms[s]) \/ Len(rooms[s]) <= MaxRooms
          /\ rooms' = [rooms EXCEPT ![s] = AddRoom(@, code)]
          /\ last' = Req("join-session", s, code, Unread, IF cb THEN "true" ELSE "none")
          /\ out' = Fanout(MembersIn(rooms', code), "user-joined", s)
                    \o <<Ev(s, "session-joined", code)>>
                    \o Fanout(RequestStateTo(s, code, rooms'), "request-state", s)
  /\ UNCHANGED <<status, sessions, xfer>>

\* the host check of playback-control: !code || socket.id !== sessions[code].hostId
PlaybackRejected(s, code) == code = Undefined \/ s # HostId(code)

\* socket.on("playback-control")
PlaybackControl(s, data) ==
  /\ Connected(s)
  /\ LET code == FindCode(s)
     IN IF PlaybackRejected(s, code)
          THEN /\ out' = <<Ev(s, "error", "Only host can control playback")>>
               /\ last' = Req("playback-control", s, code, Unread, "none")
        ELSE /\ out' = Fanout(Members(code), "playback-control", data)
             /\ last' = Req("playback-control", s, code, data, "none")
  /\ UNCHANGED <<status, rooms, sessions, xfer>>

\* (mutant) provide-state that any member of a session may send
ProvideRejectedLax(s, code) == code = Undefined

\* the host check of provide-state
ProvideRejected(s, code) == code = Undefined \/ s # HostId(code)

\* socket.on("provide-state")
ProvideState(s, forUser) ==
  /\ Connected(s)
  /\ LET code == FindCode(s)
     IN IF ProvideRejected(s, code)
          THEN /\ out' = <<>>
               /\ last' = Req("provide-state", s, code, Unread, "none")
        ELSE /\ out' = Fanout(Members(forUser), "sync-state", "state")
             /\ last' = Req("provide-state", s, code, forUser, "none")
  /\ UNCHANGED <<status, rooms, sessions, xfer>>

\* the host check of sync-state: !code || socket.id !== sessions[code].hostId
SyncRejected(s, code) == code = Undefined \/ s # HostId(code)

\* socket.on("sync-state")
SyncState(s) ==
  /\ Connected(s)
  /\ LET code == FindCode(s)
     IN IF SyncRejected(s, code)
          THEN /\ out' = <<>>
               /\ last' = Req("sync-state", s, code, Unread, "none")
        ELSE /\ out' = Fanout(Members(code), "sync-state", "state")
             /\ last' = Req("sync-state", s, code, "state", "none")
  /\ UNCHANGED <<status, rooms, sessions, xfer>>

\* socket.on("chat-message")
ChatMessage(s) ==
  /\ Connected(s)
  /\ LET code == FindCode(s)
     IN IF code = Undefined
          THEN /\ out' = <<>>
               /\ last' = Req("chat-message", s, code, Unread, "none")
        ELSE /\ out' = Fanout(Members(code), "chat-message", "message")
             /\ last' = Req("chat-message", s, code, "message", "none")
  /\ UNCHANGED <<status, rooms, sessions, xfer>>

\* socket.on("media-share")
MediaShare(s, code) ==
  /\ Connected(s)
  /\ IF ~SessionExists(code)
       THEN /\ out' = <<>>
            /\ last' = Req("media-share", s, code, Unread, "none")
     ELSE /\ out' = Fanout(Members(code), "media-share", "fileUrl")
          /\ last' = Req("media-share", s, code, "fileUrl", "none")
  /\ UNCHANGED <<status, rooms, sessions, xfer>>

\* the part of leave-session / disconnect after the caller is out of the room:
\* the events emitted, given the rooms table the broadcast sees
DepartOut(s, code, rms) ==
  Fanout(MembersIn(rms, code), "user-left", s)
  \o (IF s = HostId(code)
        THEN Fanout(MembersIn(rms, code), "session-ended", "Host left the session")
      ELSE <<>>)

\* (mutant) the session is deleted whoever leaves
DepartSessionsAnyone(s, code) == [c \in DOMAIN sessions \ {code} |-> sessions[c]]

\* ... and the sessions table it leaves
DepartSessions(s, code) ==
  IF s = HostId(code)
    THEN [c \in DOMAIN sessions \ {code} |-> sessions[c]]
  ELSE sessions

\* socket.on("leave-session")
LeaveSession(s, code) ==
  /\ Connected(s)
  /\ last' = Req("leave-session", s, code, Unread, "none")
  /\ IF Falsy(code) \/ ~SessionExists(code)
       THEN /\ out' = <<>>
            /\ UNCHANGED <<rooms, sessions, xfer>>
     ELSE /\ rooms' = [rooms EXCEPT ![s] = Without(@, code)]
          /\ out' = DepartOut(s, code, rooms')
          /\ sessions' = DepartSessions(s, code)
          /\ xfer' = Track(NoXfer)
  /\ UNCHANGED status

\* socket.rooms as the "disconnect" listener sees it: socket.io has already
\* taken the socket out of every room
RoomsAtDisconnect(s) == <<>>

\* the transport closes the connection, then socket.on("disconnect") runs
Disconnect(s) ==
  /\ Connected(s)
  /\ status' = [status EXCEPT ![s] = "disconnected"]
  /\ rooms' = [rooms EXCEPT ![s] = <<>>]
  /\ xfer' = Track(NoXfer)
  /\ LET code == FindIn(RoomsAtDisconnect(s), s)
     IN /\ last' = Req("disconnect", s, code, Unread, "none")
        /\ IF code # Undefined
             THEN /\ out' = DepartOut(s, code, rooms')
                  /\ sessions' = DepartSessions(s, code)
           ELSE /\ out' = <<>>
                /\ UNCHANGED sessions

\* ---------------------------------------------------------------- inputs
\* identifiers a client may name as the new host
NewHostIds == {s \in Sockets : status[s] # "fresh"} \cup {GhostId}
\* identifiers a client may name as the target of provide-state
ForUserArgs == {s \in Sockets : status[s] # "fresh"} \cup Codes \cup {GhostId}
Payloads == {"play", "pause"}

Next ==
  \/ \E s \in Sockets : Connect(s)
  \/ \E s \in Sockets : CreateSession(s)
  \/ \E s \in Sockets, code \in CodeArgs, n \in NewHostIds : TransferHost(s, code, n)
  \/ \E s \in Sockets, code \in CodeArgs, cb \in BOOLEAN : JoinSession(s, code, cb)
  \/ \E s \in Sockets, d \in Payloads : PlaybackControl(s, d)
  \/ \E s \in Sockets, u \in ForUserArgs : ProvideState(s, u)
  \/ \E s \in Sockets, code \in CodeArgs : LeaveSession(s, code)
  \/ \E s \in Sockets : Disconnect(s)

Spec == Init /\ [][Next]_vars

\* every handler, the relays (sync-state, chat-message, media-share) included,
\* without the record of the transfer in force
InitRelay ==
  /\ status = [s \in Sockets |-> "fresh"]
  /\ rooms = [s \in Sockets |-> <<>>]
  /\ sessions = <<>>
  /\ xfer = XferOff
  /\ last = Req("start", Undefined, EmptyCode, Unread, "none")
  /\ out = <<>>

NextRelay ==
  \/ Next
  \/ \E s \in Sockets : SyncState(s)
  \/ \E s \in Sockets : ChatMessage(s)
  \/ \E s \in Sockets, code \in CodeArgs : MediaShare(s, code)

SpecRelay == InitRelay /\ [][NextRelay]_vars

TypeOK ==
  /\ status \in [Sockets -> {"fresh", "connected", "disconnected"}]
  /\ DOMAIN sessions \subseteq Codes
  /\ \A s \in Sockets : Len(rooms[s]) <= MaxRooms + 1

\* ---------------------------------------------------------------- claims
\* vocabulary: the events of `o` that reached socket m
Got(o, m, ev, arg) == \E i \in DOMAIN o : o[i] = Ev(m, ev, arg)

\* the request was answered with one error event to the caller and nothing else
OnlyError(o, caller) ==
  /\ Len(o) = 1
  /\ o[1].to = caller
  /\ o[1].ev = "error"

\* every delivery, if any, is an error event to the caller
NothingButError(o, caller) ==
  \A i \in DOMAIN o : o[i].to = caller /\ o[i].ev = "error"

\* m got ev1 and later ev2
GotInOrder(o, m, ev1, arg1, ev2, arg2) ==
  \E i, j \in DOMAIN o : i < j /\ o[i] = Ev(m, ev1, arg1) /\ o[j] = Ev(m, ev2, arg2)

Ended == "Host left the session"

\* the sockets in room `code` other than s
Others(code, s) == Members(code) \ {s}

\* C1: whenever the host of an active session leaves it (leave-session) or
\* disconnects, that step removes the session from the Registry and delivers
\* session-ended to every participant who was still in the room.
C1_HostDepartureEndsSession ==
  [][\A code \in DOMAIN sessions :
       ( /\ sessions[code] = last'.caller
         /\ \/ last'.op = "leave-session" /\ last'.code = code
            \/ last'.op = "disconnect" )
       => /\ code \notin DOMAIN sessions'
          /\ \A m \in Others(code, last'.caller) : Got(out', m, "session-ended", Ended)]_vars

\* C2: a transfer-host, playback-control or provide-state by anyone but the
\* host of the session it names or resolves to leaves the Registry and every
\* room's membership unchanged and delivers nothing except an error event to
\* the caller.
C2_OnlyHostActs ==
  [][( /\ last'.op \in {"transfer-host", "playback-control", "provide-state"}
       /\ last'.caller # HostId(last'.code) )
     => /\ sessions' = sessions
        /\ rooms' = rooms
        /\ NothingButError(out', last'.caller)]_vars

\* C2 witness: a connected non-host named an active session in transfer-host
\* and was turned away.
C2_Witness ==
  /\ last.op = "transfer-host"
  /\ last.code \in DOMAIN sessions
  /\ sessions[last.code] # last.caller
  /\ sessions[last.code] \in Sockets
  /\ out = <<Ev(last.caller, "error", "Only the current host can transfer host rights")>>

\* a playback-control that was turned away / that was broadcast to room `code`
PlaybackError(o, caller) == o = <<Ev(caller, "error", "Only host can control playback")>>

PlaybackBroadcast(o, code, data) ==
  /\ o = Fanout(Members(code), "playback-control", data)
  /\ o # <<>>

C4_FreshCode ==
  [][last'.op = "create-session"
     => /\ last'.code \notin DOMAIN sessions
        /\ \A c \in DOMAIN sessions : c \in DOMAIN sessions' /\ sessions'[c] = sessions[c]
        /\ last'.code \in DOMAIN sessions'
        /\ sessions'[last'.code] = last'.caller]_vars

\* C4 witness: a code is issued again after its session ended (a socket of the
\* ended session is still in the room) while another session is active.
C4_Witness ==
  /\ last.op = "create-session"
  /\ \E s \in Sockets \ {last.caller} : last.code \in SeqToSet(rooms[s])
  /\ \E c \in DOMAIN sessions : c # last.code

\* C5: join-session with a code that is not in the Registry never acknowledges
\* with true, changes neither the Registry nor any room, and delivers nothing
\* but the error event to the caller.
C5_UnknownCodeJoinFails ==
  [][( /\ last'.op = "join-session"
       /\ last'.code \notin DOMAIN sessions )
     => /\ last'.ack # "true"
        /\ sessions' = sessions
        /\ rooms' = rooms
        /\ OnlyError(out', last'.caller)]_vars

\* C6: a leave-session or disconnect by a participant who is not the host of a
\* session neither removes that session from the Registry nor changes its
\* hostId.
C6_NonHostLeaveKeepsSession ==
  [][last'.op \in {"leave-session", "disconnect"}
     => \A code \in DOMAIN sessions :
          sessions[code] # last'.caller
          => code \in DOMAIN sessions' /\ sessions'[code] = sessions[code]]_vars

\* C6 witness: a guest has left an active session whose host is still in the
\* room and was told so.
C6_Witness ==
  /\ last.op = "leave-session"
  /\ last.code \in DOMAIN sessions
  /\ sessions[last.code] # last.caller
  /\ last.code \notin SeqToSet(rooms[last.caller])
  /\ Got(out, sessions[last.code], "user-left", last.caller)

\* C7: when the host disconnects, every remaining member of the room receives
\* user-left and then session-ended, and once the disconnect is handled the
\* code is no Registry key any more.
C7_HostDisconnect ==
  [][last'.op = "disconnect"
     => \A code \in DOMAIN sessions :
          sessions[code] = last'.caller
          => /\ \A m \in Others(code, last'.caller) :
                  GotInOrder(out', m, "user-left", last'.caller, "session-ended", Ended)
             /\ code \notin DOMAIN sessions']_vars

\* C8: for a member of an active session, Disconnect changes the Registry and
\* delivers user-left / session-ended exactly as LeaveSession with that
\* session's code does from the same state.
C8_DisconnectIsLeave ==
  [][( /\ last'.op = "disconnect"
       /\ FindCode(last'.caller) \in DOMAIN sessions )
     => LET s == last'.caller
            code == FindCode(s)
        IN /\ sessions' = DepartSessions(s, code)
           /\ out' = DepartOut(s, code, [rooms EXCEPT ![s] = Without(@, code)])]_vars

\* C9: whenever the host of a session sends playback-control, every member of
\* that session's room, the host included, receives playback-control with the
\* payload sent.
C9_HostPlaybackReachesRoom ==
  [][\A d \in Payloads, s \in Sockets, code \in DOMAIN sessions :
       ( /\ PlaybackControl(s, d)
         /\ sessions[code] = s )
       => \A m \in Members(code) \cup {s} : Got(out', m, "playback-control", d)]_vars

\* C10: a rejected request (join-session with an unknown code, transfer-host
\* with an unknown code or from a non-host, playback-control from a non-host)
\* delivers one error event, to the caller, nothing to anybody else, and leaves
\* the Registry unchanged.
C10_RejectionsAreLocal ==
  [][( \/ last'.op = "join-session" /\ last'.code \notin DOMAIN sessions
       \/ last'.op = "transfer-host" /\ last'.caller # HostId(last'.code)
       \/ last'.op = "playback-control" /\ last'.caller # HostId(last'.code) )
     => /\ OnlyError(out', last'.caller)
        /\ sessions' = sessions]_vars

\* the active sessions whose room socket s is in
SessionsOf(s) == {c \in DOMAIN sessions : c \in SeqToSet(rooms[s])}

\* C11: in every reachable state each participant is a member of at most one
\* active session, so the membership lookup has at most one candidate.
C11_OneSessionPerSocket ==
  \A s \in Sockets : Cardinality(SessionsOf(s)) <= 1

\* C12: in every reachable state the hostId of every active session names a
\* currently connected participant.
C12_HostIsConnected ==
  \A c \in DOMAIN sessions : sessions[c] \in Sockets /\ status[sessions[c]] = "connected"

\* C13: in every reachable state every code in the Registry has at least one
\* connected participant in its room.
C13_NoEmptySession ==
  \A c \in DOMAIN sessions : Members(c) # {}

\* C14: the hostId of an active session changes only through a transfer-host
\* for that session issued by its current host; every other request leaves
\* every existing session's hostId as it was.
C14_HostChangesOnlyByTransfer ==
  [][\A c \in DOMAIN sessions :
       (c \in DOMAIN sessions' /\ sessions'[c] # sessions[c])
       => /\ last'.op = "transfer-host"
          /\ last'.code = c
          /\ last'.caller = sessions[c]
          /\ sessions'[c] = last'.arg]_vars

\* C14 witness: the host of a session that has another member handed the host
\* role to someone else.
C14_Witness ==
  /\ last.op = "transfer-host"
  /\ last.arg \notin {Unread, last.caller}
  /\ last.code \in DOMAIN sessions
  /\ sessions[last.code] = last.arg
  /\ Got(out, last.caller, "host-transferred", last.arg)
  /\ Cardinality(Members(last.code)) > 1

\* the requests that broadcast to a session's room
RoomCasts == {"playback-control", "sync-state", "chat-message", "media-share", "transfer-host"}

\* C15: a playback-control, sync-state, chat-message, media-share or
\* transfer-host never broadcasts to the room of a code that is not in the
\* Registry when the broadcast is made.
C15_NoBroadcastWithoutSession ==
  [][( /\ last'.op \in RoomCasts
       /\ \E i \in DOMAIN out' : out'[i].ev # "error" )
     => last'.code \in DOMAIN sessions]_vars

\* C16: a code that is not (any more) in the Registry becomes a key again only
\* through create-session, which starts a fresh session (the creator is its
\* host and the only socket in its room); every event naming the code
\* (join-session, transfer-host, leave-session, media-share, provide-state)
\* changes nothing and delivers at most an error to the caller, and no
\* membership lookup resolves to it.
C16_NoResurrection ==
  [][\A c \in Codes \ DOMAIN sessions :
       /\ c \in DOMAIN sessions'
          => /\ last'.op = "create-session"
             /\ last'.code = c
             /\ sessions'[c] = last'.caller
             /\ MembersIn(rooms', c) = {last'.caller}
       /\ ( /\ last'.op \in {"join-session", "transfer-host", "leave-session", "media-share"}
            /\ last'.code = c )
          => /\ sessions' = sessions
             /\ rooms' = rooms
             /\ NothingButError(out', last'.caller)
             /\ last'.ack # "true"
       /\ ( last'.op = "provide-state" /\ last'.arg = c ) => out' = <<>>
       /\ last'.op \in {"playback-control", "sync-state", "provide-state",
                        "chat-message", "disconnect"}
          => last'.code # c]_vars

\* the request-state deliveries of a handler run
RequestStates(o) == {i \in DOMAIN o : o[i].ev = "request-state"}

JoinSucceeded(l, o) == l.op = "join-session" /\ Got(o, l.caller, "session-joined", l.code)

HostCanBeAsked(l) ==
  /\ HostId(l.code) \in Sockets \ {l.caller}
  /\ status[HostId(l.code)] = "connected"

Recipients(o) == {o[i].to : i \in DOMAIN o}

AllSyncState(o) == \A i \in DOMAIN o : o[i].ev = "sync-state" /\ o[i].arg = "state"

Addressed(u) ==
  IF u \in Sockets THEN {s \in {u} : status[s] = "connected"}
  ELSE IF u \in Codes THEN Members(u)
  ELSE {}

HostedBy(s) == {c \in SessionsOf(s) : sessions[c] = s}

\* C19: sync-state from a participant who hosts no session it belongs to is
\* dropped: no event, no error, no change of the Registry; from the host of a
\* session it is broadcast to the whole room of that session.
C19_SyncStateHostOnly ==
  [][last'.op = "sync-state"
     => /\ sessions' = sessions
        /\ IF HostedBy(last'.caller) = {}
             THEN out' = <<>>
           ELSE \E c \in HostedBy(last'.caller) :
                  /\ Recipients(out') = Members(c)
                  /\ Len(out') = Cardinality(Members(c))
                  /\ AllSyncState(out')]_vars

NotHostTransfer(caller) ==
  <<Ev(caller, "error", "Only the current host can transfer host rights")>>

\* C20: after a host's transfer-host to a target other than itself, a second
\* transfer-host by that old host for the same session (before any leave or
\* disconnect) is rejected with NotHost and changes nothing; and after every
\* successful transfer the hostId is the newHostId of the latest
\* host-transferred broadcast for that code.
C20_OneTransferWins ==
  [][/\ ( /\ xfer.code # EmptyCode
          /\ xfer.old # xfer.new
          /\ last'.op = "transfer-host"
          /\ last'.caller = xfer.old
          /\ last'.code = xfer.code )
        => /\ out' = NotHostTransfer(last'.caller)
           /\ sessions' = sessions
           /\ xfer' = xfer
     /\ ( /\ last'.op = "transfer-host"
          /\ last'.arg # Unread )
        => /\ sessions'[last'.code] = last'.arg
           /\ out' = Fanout(Members(last'.code), "host-transferred", last'.arg)
           /\ xfer'.new = last'.arg
     /\ xfer'.code # EmptyCode
        => /\ xfer'.code \in DOMAIN sessions'
           /\ sessions'[xfer'.code] = xfer'.new]_vars

\* C20 witness: the old host's second transfer-host was rejected and the
\* session still has the host the first one named.
C20_Witness ==
  /\ xfer.code # EmptyCode
  /\ xfer.old # xfer.new
  /\ last.op = "transfer-host"
  /\ last.caller = xfer.old
  /\ last.code = xfer.code
  /\ out = NotHostTransfer(last.caller)
  /\ sessions[xfer.code] = xfer.new

\* the events a participant outside a session's room can send that name a
\* session or a receiver
OutsiderEvents == {"media-share", "leave-session", "provide-state", "chat-message",
                   "transfer-host"}

\* m is in the room of an active session the caller is in as well
SharesSession(caller, m) == \E t \in SessionsOf(caller) : t \in SeqToSet(rooms[m])

\* C21: sessions are isolated: an event sent by a participant who is not in
\* the room of session c leaves c's Registry entry as it is and is delivered
\* to no member of c (other than through a session the sender shares with
\* that member).
C21_SessionsIsolated ==
  [][\A c \in DOMAIN sessions :
       ( /\ last'.op \in OutsiderEvents
         /\ last'.caller \in Sockets
         /\ c \notin SeqToSet(rooms[last'.caller]) )
       => /\ c \in DOMAIN sessions'
          /\ sessions'[c] = sessions[c]
          /\ \A i \in DOMAIN out' :
               out'[i].to \in Members(c) => SharesSession(last'.caller, out'[i].to)]_vars

\* C22: when create-session issues a code, the room of the new session holds
\* its creator and nobody else: no member of an earlier, ended session that
\* had the same code is still in the room (and so in reach of the new
\* session's broadcasts).
C22_FreshRoom ==
  [][last'.op = "create-session"
     => MembersIn(rooms', last'.code) = {last'.caller}]_vars

====
